---------------------------- MODULE Spec2Model ----------------------------
(***************************************************************************)
(* A model of customize.ts, the one-shot template customizer: it renames   *)
(* the bin source file, rewrites the placeholder identifiers in five       *)
(* files, asks five questions and renders the answers into Cargo.toml and  *)
(* README.md.                                                              *)
(*                                                                         *)
(* Text (file contents, the project name, answers) is a sequence of        *)
(* one-character strings; a path is a sequence of string tokens.           *)
(***************************************************************************)
EXTENDS Naturals, Sequences, FiniteSets

(***************************************************************************)
(* Characters                                                              *)
(***************************************************************************)
LowerSeq ==
    <<"a","b","c","d","e","f","g","h","i","j","k","l","m",
      "n","o","p","q","r","s","t","u","v","w","x","y","z">>

UpperSeq ==
    <<"A","B","C","D","E","F","G","H","I","J","K","L","M",
      "N","O","P","Q","R","S","T","U","V","W","X","Y","Z">>

Range(s) == { s[i] : i \in 1..Len(s) }

Lower == Range(LowerSeq)

Upper == Range(UpperSeq)

Digit == {"0","1","2","3","4","5","6","7","8","9"}

LowerOrDigit == Lower \cup Digit

Alnum == Lower \cup Upper \cup Digit

IsAlnum(c) == c \in Alnum

IndexIn(s, c) == CHOOSE i \in 1..Len(s) : s[i] = c

lowerCase(c) == IF c \in Upper THEN LowerSeq[IndexIn(UpperSeq, c)] ELSE c

upperCase(c) == IF c \in Lower THEN UpperSeq[IndexIn(LowerSeq, c)] ELSE c

(***************************************************************************)
(* The case library (deno.land/x/case@2.1.1, a port of change-case 3).     *)
(* normalCase:                                                             *)
(*   str.replace(/([a-z0-9])([A-Z])/g, "$1 $2")                            *)
(*      .replace(/([A-Z])([A-Z][a-z])/g, "$1 $2")                          *)
(*      .replace(/[^A-Za-z0-9]+/g, (m, index, value) =>                    *)
(*          index === 0 || index === value.length - m.length               *)
(*              ? "" : replacement)                                        *)
(*   then lower-cased.  It never throws: a name without an alphanumeric    *)
(*   character converts to the empty string.                               *)
(***************************************************************************)
RECURSIVE SplitCamel(_, _)
\* /([a-z0-9])([A-Z])/g -> "$1 $2", scanning from position i
SplitCamel(s, i) ==
    IF i > Len(s) THEN <<>>
    ELSE IF /\ i < Len(s)
            /\ s[i] \in LowerOrDigit
            /\ s[i + 1] \in Upper
         THEN <<s[i], " ", s[i + 1]>> \o SplitCamel(s, i + 2)
         ELSE <<s[i]>> \o SplitCamel(s, i + 1)

RECURSIVE SplitCamelUpper(_, _)
\* /([A-Z])([A-Z][a-z])/g -> "$1 $2", scanning from position i
SplitCamelUpper(s, i) ==
    IF i > Len(s) THEN <<>>
    ELSE IF /\ i + 2 <= Len(s)
            /\ s[i] \in Upper
            /\ s[i + 1] \in Upper
            /\ s[i + 2] \in Lower
         THEN <<s[i], " ", s[i + 1], s[i + 2]>> \o SplitCamelUpper(s, i + 3)
         ELSE <<s[i]>> \o SplitCamelUpper(s, i + 1)

RECURSIVE RunEnd(_, _)
\* the last position of the run of non-word characters that starts at i
RunEnd(s, i) ==
    IF i < Len(s) /\ ~IsAlnum(s[i + 1]) THEN RunEnd(s, i + 1) ELSE i

RECURSIVE ReplaceNonWord(_, _, _)
\* /[^A-Za-z0-9]+/g: a run at the start or at the end is dropped, any
\* other run becomes the replacement
ReplaceNonWord(s, replacement, i) ==
    IF i > Len(s) THEN <<>>
    ELSE IF IsAlnum(s[i])
         THEN <<s[i]>> \o ReplaceNonWord(s, replacement, i + 1)
         ELSE LET e == RunEnd(s, i) IN
              (IF i = 1 \/ e = Len(s) THEN <<>> ELSE replacement)
                  \o ReplaceNonWord(s, replacement, e + 1)

normalCase(str, replacement) ==
    LET words == ReplaceNonWord(SplitCamelUpper(SplitCamel(str, 1), 1),
                                replacement, 1)
    IN  [i \in 1..Len(words) |-> lowerCase(words[i])]

snakeCase(str) == normalCase(str, <<"_">>)

paramCase(str) == normalCase(str, <<"-">>)

RECURSIVE JoinWords(_, _)
\* camelCase's two replaces on the normalCase result:
\* / (?=\d)/g -> "_", then / (.)/g -> upperCase($1)
JoinWords(s, i) ==
    IF i > Len(s) THEN <<>>
    ELSE IF s[i] = " " /\ i < Len(s)
         THEN IF s[i + 1] \in Digit
              THEN <<"_">> \o JoinWords(s, i + 1)
              ELSE <<upperCase(s[i + 1])>> \o JoinWords(s, i + 2)
         ELSE <<s[i]>> \o JoinWords(s, i + 1)

camelCase(str) == JoinWords(normalCase(str, <<" ">>), 1)

upperCaseFirst(s) ==
    IF s = <<>> THEN <<>> ELSE <<upperCase(s[1])>> \o Tail(s)

pascalCase(str) == upperCaseFirst(camelCase(str))

(***************************************************************************)
(* The placeholders of the template and String.prototype.replaceAll        *)
(***************************************************************************)
\* "rust_cli_quickstart"
SnakePH == <<"r","u","s","t","_","c","l","i","_","q","u","i","c","k","s","t","a","r","t">>

\* "RustCliQuickStart"
PascalPH == <<"R","u","s","t","C","l","i","Q","u","i","c","k","S","t","a","r","t">>

\* "rust-cli-quickstart"
KebabPH == <<"r","u","s","t","-","c","l","i","-","q","u","i","c","k","s","t","a","r","t">>

MatchAt(text, pat, i) ==
    /\ i + Len(pat) - 1 <= Len(text)
    /\ \A k \in 1..Len(pat) : text[i + k - 1] = pat[k]

Occurs(text, pat) == \E i \in 1..Len(text) : MatchAt(text, pat, i)

\* the position of the first match of pat at or after i, 0 when there is
\* none
NextMatch(text, pat, i) ==
    IF \E j \in i..Len(text) : MatchAt(text, pat, j)
    THEN CHOOSE j \in i..Len(text) :
            /\ MatchAt(text, pat, j)
            /\ \A k \in i..(j - 1) : ~MatchAt(text, pat, k)
    ELSE 0

RECURSIVE ReplaceFrom(_, _, _, _)
\* the scan resumes behind a match: matches do not overlap, and what was
\* put in is not scanned
ReplaceFrom(text, pat, rep, i) ==
    LET j == NextMatch(text, pat, i)
    IN  IF j = 0 THEN SubSeq(text, i, Len(text))
        ELSE SubSeq(text, i, j - 1) \o rep
               \o ReplaceFrom(text, pat, rep, j + Len(pat))

\* text.replaceAll(RegExp(pat, "gm"), rep): every leftmost non-overlapping
\* match of the literal pattern, found in one scan of the text, becomes
\* rep.  The patterns have no regular-expression metacharacter and the
\* case forms no "$", so both are literal.
replaceAll(text, pat, rep) == ReplaceFrom(text, pat, rep, 1)

(***************************************************************************)
(* The files of customizeProject and the chained replaceAll of each        *)
(***************************************************************************)
RewriteSteps == <<"bin", "lib", "bench", "cargo", "launch">>

\* a slip: every file gets the snake rule alone
RulesOfSnakeOnly(step, projectName) ==
    << <<SnakePH, snakeCase(projectName)>> >>

\* the rules of a rewrite statement, in the order of the chain
RulesOf(step, projectName) ==
    CASE step = "bin" ->
           << <<SnakePH, snakeCase(projectName)>>,
              <<PascalPH, pascalCase(projectName)>> >>
      [] step = "lib" ->
           << <<PascalPH, pascalCase(projectName)>> >>
      [] step = "bench" ->
           << <<SnakePH, snakeCase(projectName)>>,
              <<PascalPH, pascalCase(projectName)>> >>
      [] step = "cargo" ->
           << <<SnakePH, snakeCase(projectName)>>,
              <<KebabPH, paramCase(projectName)>> >>
      [] step = "launch" ->
           << <<SnakePH, snakeCase(projectName)>> >>

RECURSIVE ApplyChain(_, _, _)
\* text.replaceAll(r1).replaceAll(r2)...: each call works on the result of
\* the call before it
ApplyChain(text, rules, k) ==
    IF k > Len(rules) THEN text
    ELSE ApplyChain(replaceAll(text, rules[k][1], rules[k][2]), rules, k + 1)

Rewritten(text, step, projectName) ==
    ApplyChain(text, RulesOf(step, projectName), 1)

(***************************************************************************)
(* The mustache renderer (deno.land/x/mustache_ts): a {{name}} tag is      *)
(* replaced by the HTML-escaped value of name in the view, by nothing      *)
(* when the view has no such name.  The templates of the model hold only   *)
(* such variable tags.                                                     *)
(***************************************************************************)
escapeHtml(c) ==
    CASE c = "&" -> <<"&","a","m","p",";">>
      [] c = "<" -> <<"&","l","t",";">>
      [] c = ">" -> <<"&","g","t",";">>
      [] c = "\"" -> <<"&","q","u","o","t",";">>
      [] c = "'" -> <<"&","#","3","9",";">>
      [] c = "/" -> <<"&","#","x","2","F",";">>
      [] c = "=" -> <<"&","#","x","3","D",";">>
      [] OTHER -> <<c>>

RECURSIVE Escaped(_, _)
Escaped(value, i) ==
    IF i > Len(value) THEN <<>>
    ELSE escapeHtml(value[i]) \o Escaped(value, i + 1)

RECURSIVE TrimLeft(_)
TrimLeft(s) == IF s # <<>> /\ s[1] = " " THEN TrimLeft(Tail(s)) ELSE s

RECURSIVE TrimRight(_)
TrimRight(s) ==
    IF s # <<>> /\ s[Len(s)] = " "
    THEN TrimRight(SubSeq(s, 1, Len(s) - 1))
    ELSE s

\* the view is a sequence of <<name, value>> pairs
Lookup(view, name) ==
    IF \E k \in 1..Len(view) : view[k][1] = name
    THEN view[CHOOSE k \in 1..Len(view) : view[k][1] = name][2]
    ELSE <<>>

RECURSIVE RenderFrom(_, _, _)
\* the text up to a tag is copied, the tag becomes the escaped value of
\* its name; an opening without a closing is copied as it is
RenderFrom(text, view, i) ==
    LET open == NextMatch(text, <<"{", "{">>, i)
        close == IF open = 0 THEN 0
                 ELSE NextMatch(text, <<"}", "}">>, open + 2)
    IN  IF close = 0 THEN SubSeq(text, i, Len(text))
        ELSE SubSeq(text, i, open - 1)
               \o Escaped(Lookup(view,
                     TrimRight(TrimLeft(SubSeq(text, open + 2, close - 1)))), 1)
               \o RenderFrom(text, view, close + 2)

render(text, view) == RenderFrom(text, view, 1)

\* a slip: the email and the alias questions change places
QuestionsSwapped == <<"description", "firstName", "lastName", "alias", "email">>

\* the names of the five answers, in the order of the question calls
Questions == <<"description", "firstName", "lastName", "email", "alias">>

\* the key a field has in a template
KeyOf(field) ==
    CASE field = "description" -> <<"d","e","s","c","r","i","p","t","i","o","n">>
      [] field = "firstName" -> <<"f","i","r","s","t","N","a","m","e">>
      [] field = "lastName" -> <<"l","a","s","t","N","a","m","e">>
      [] field = "email" -> <<"e","m","a","i","l">>
      [] field = "alias" -> <<"a","l","i","a","s">>
      [] field = "projectName" -> <<"p","r","o","j","e","c","t","N","a","m","e">>

\* the value of a field once its question is answered
FieldValue(meta, field) ==
    meta[CHOOSE k \in 1..Len(Questions) : Questions[k] = field]

\* the view of each render call
ViewOf(step, meta, projectName) ==
    IF step = "renderCargo"
    THEN << <<KeyOf("description"), FieldValue(meta, "description")>>,
            <<KeyOf("firstName"), FieldValue(meta, "firstName")>>,
            <<KeyOf("lastName"), FieldValue(meta, "lastName")>>,
            <<KeyOf("email"), FieldValue(meta, "email")>>,
            <<KeyOf("alias"), FieldValue(meta, "alias")>> >>
    ELSE << <<KeyOf("alias"), FieldValue(meta, "alias")>>,
            <<KeyOf("projectName"), snakeCase(projectName)>>,
            <<KeyOf("description"), FieldValue(meta, "description")>> >>

(***************************************************************************)
(* Paths and File objects                                                  *)
(***************************************************************************)
Files == {"bin", "lib", "bench", "cargo", "launch", "readme"}

\* new File("src/bin/rust_cli_quickstart.rs")
OldBinPath == <<"src/bin/">> \o SnakePH \o <<".rs">>

\* a slip: the kebab form names the file
RenameTargetKebab(projectName) == paramCase(projectName) \o <<".rs">>

\* the argument of rename: snakeCase(projectName) + ".rs"
RenameTarget(projectName) == snakeCase(projectName) \o <<".rs">>

\* File.rename keeps the directory of the file
RenamedPath(projectName) == <<"src/bin/">> \o RenameTarget(projectName)

\* the path each File object has once binFile is renamed
PathOf(file, projectName) ==
    CASE file = "bin" -> RenamedPath(projectName)
      [] file = "lib" -> <<"src/lib.rs">>
      [] file = "bench" -> <<"benches/benchmarks.rs">>
      [] file = "cargo" -> <<"Cargo.toml">>
      [] file = "launch" -> <<".vscode/launch.json">>
      [] file = "readme" -> <<"README.md">>

\* the File object whose text() a statement reads
SourceOf(step) ==
    CASE step = "renderCargo" -> "cargo"
      [] step = "renderReadme" -> "readme"
      [] OTHER -> step

\* a slip: the README render is written to launchFile
TargetOfCopyPaste(step) ==
    CASE step = "renderCargo" -> "cargo"
      [] step = "renderReadme" -> "launch"
      [] OTHER -> step

\* the File object a statement calls write on
TargetOf(step) ==
    CASE step = "renderCargo" -> "cargo"
      [] step = "renderReadme" -> "readme"
      [] OTHER -> step

\* the statements of customizeProject in program order; "ask" stands for
\* the five question calls
Body ==
    <<"rename", "bin", "lib", "bench", "cargo", "launch", "ask",
      "renderCargo", "renderReadme", "warn">>

\* the statement that follows a completed statement: the call enters the
\* body, the return of customizeProject leads to Deno.exit(0)
Successor(body, step) ==
    IF step = "start" THEN body[1]
    ELSE LET k == CHOOSE i \in 1..Len(body) : body[i] = step
         IN  IF k = Len(body) THEN "exit0" ELSE body[k + 1]

\* a slip: the questions are asked before launch.json is rewritten
AfterAskFirst(step) ==
    Successor(<<"rename", "bin", "lib", "bench", "cargo", "ask", "launch",
                "renderCargo", "renderReadme", "warn">>, step)

\* a slip: Cargo.toml is not rendered
AfterSkipCargoRender(step) ==
    Successor(<<"rename", "bin", "lib", "bench", "cargo", "launch", "ask",
                "renderReadme", "warn">>, step)

After(step) == Successor(Body, step)

\* a slip: an error of a file statement is swallowed and the run goes on
FailToContinue(step) == IF step \in {"start", "ask"} THEN "catch" ELSE After(step)

\* where control goes when a statement throws: the catch of the call
FailTo(step) == "catch"

\* a slip: only the help flag is checked
UsageRequiredHelpOnly(a) == a.help

\* the usage check on the parsed arguments
UsageRequired(a) == a.help \/ Len(a.pos) < 1

(***************************************************************************)
(* Inputs of a run                                                         *)
(***************************************************************************)
\* the number of pieces an initial file content is made of
MaxPieces == 2

\* a placeholder, a fragment of a placeholder, and a line that names the
\* project in its three forms
Pieces ==
    { SnakePH, <<"r","u","s","t","-","c","l","i","-">>,
      SnakePH \o <<" ">> \o PascalPH \o <<" ">> \o KebabPH }

RECURSIVE Concats(_)
Concats(n) ==
    IF n = 0 THEN { <<>> }
    ELSE Concats(n - 1)
           \cup { t \o q : t \in Concats(n - 1), q \in Pieces }

Texts == Concats(MaxPieces)

\* the template tags a file of the template ends with
Suffix(file) ==
    CASE file = "cargo" ->
           <<" ","{","{","d","e","s","c","r","i","p","t","i","o","n","}","}"," ","{","{","f","i","r","s","t","N","a","m","e","}","}"," ","{","{"," ","l","a","s","t","N","a","m","e"," ","}","}"," ","{","{","e","m","a","i","l","}","}"," ","{","{","a","l","i","a","s","}","}">>
      [] file = "readme" ->
           <<" ","{","{","p","r","o","j","e","c","t","N","a","m","e","}","}"," ","{","{","a","l","i","a","s","}","}"," ","{","{","d","e","s","c","r","i","p","t","i","o","n","}","}"," ","{","{","l","i","c","e","n","s","e","}","}">>
      [] OTHER -> <<>>

\* the path a file of the template has before the run
TemplatePath(file) ==
    IF file = "bin" THEN OldBinPath ELSE PathOf(file, <<>>)

\* the template directory: every file holds t and its tags; at most one
\* file is missing
InitialFs(t, missing) ==
    [ q \in { TemplatePath(f) : f \in Files \ missing } |->
        LET f == CHOOSE g \in Files : TemplatePath(g) = q
        IN  t \o Suffix(f) ]

Names ==
    { <<"w","i","d","g","e","t"," ","m","a","k","e","r">>,
      <<"q","u","i","c","k","s","t","a","r","t">>,
      <<"m","y","A","p","p">>,
      <<"r","u","s","t"," ","c","l","i"," ","q","u","i","c","k","s","t","a","r","t">>,
      <<"_","_","_">> }

Answers == { <<>>, <<" ","R","&","D"," ">> }

ArgsSet ==
    { [help |-> FALSE, pos |-> <<>>], [help |-> TRUE, pos |-> <<>>] }
      \cup { [help |-> h, pos |-> <<n>>] : h \in BOOLEAN, n \in Names }

MissingOptions == { {}, {"bin"}, {"cargo"} }

(***************************************************************************)
(* State                                                                   *)
(***************************************************************************)
VARIABLES
    args,         \* parse(Deno.args): the help flag and the positionals
    pc,           \* the statement about to run
    projectName,  \* the parameter of customizeProject
    fs,           \* the file system: path -> content
    metadata,     \* the answers received so far, in the order of Questions
    exitCode,     \* <<>> while running, <<status>> once Deno.exit is called
    trace,        \* history: what the run has done so far
    orig,         \* history: the file system before the run
    atPrompt,     \* history: the file system when the rewrite phase ended
    phases        \* history: the phases of the orchestrator entered so far

vars ==
    <<args, pc, projectName, fs, metadata, exitCode, trace, orig, atPrompt,
      phases>>

Ev(op, path, val) == [op |-> op, path |-> path, val |-> val]

\* the phase of the orchestrator a position belongs to
PhaseOf(p, code) ==
    CASE p = "start" -> "Start"
      [] p \in {"rename", "bin", "lib", "bench", "cargo", "launch"} ->
           "RenamingAndRewritingFiles"
      [] p \in {"ask", "wait"} -> "CollectingMetadata"
      [] p \in {"renderCargo", "renderReadme"} -> "RenderingTemplates"
      [] p \in {"warn", "exit0"} -> "Done"
      [] p = "catch" -> "Failed"
      [] p = "exited" -> IF code = <<0>> THEN "Done" ELSE "Failed"

Visit(seen, phase) ==
    IF seen[Len(seen)] = phase THEN seen ELSE Append(seen, phase)

Moved == phases' = Visit(phases, PhaseOf(pc', exitCode'))

Put(f, path, content) ==
    [ q \in DOMAIN f \cup {path} |-> IF q = path THEN content ELSE f[q] ]

\* renameSync: the content moves to the new path
Move(f, from, to) ==
    [ q \in (DOMAIN f \ {from}) \cup {to} |->
        IF q = to THEN f[from] ELSE f[q] ]

Init ==
    /\ args \in ArgsSet
    /\ \E t \in Texts, missing \in MissingOptions : fs = InitialFs(t, missing)
    /\ orig = fs
    /\ atPrompt = fs
    /\ pc = "start"
    /\ projectName = <<>>
    /\ metadata = <<>>
    /\ exitCode = <<>>
    /\ trace = <<>>
    /\ phases = <<"Start">>

(***************************************************************************)
(* The run                                                                 *)
(***************************************************************************)
\* a statement throws after doing what `done` records
Throw(step, done) ==
    /\ trace' = trace \o done \o <<Ev("throw", <<step>>, <<>>)>>
    /\ pc' = FailTo(step)

\* the top level: the usage check, then the call of customizeProject
Start ==
    /\ pc = "start"
    /\ IF UsageRequired(args)
       THEN /\ trace' = Append(trace, Ev("usage", <<>>, <<>>))
            /\ exitCode' = <<1>>
            /\ pc' = "exited"
            /\ UNCHANGED projectName
       ELSE IF Len(args.pos) < 1
            THEN \* args._[0] is undefined: toString throws inside the try
                 /\ Throw("start", <<>>)
                 /\ UNCHANGED <<projectName, exitCode>>
            ELSE /\ projectName' = args.pos[1]
                 /\ pc' = After("start")
                 /\ UNCHANGED <<trace, exitCode>>
    /\ UNCHANGED <<args, fs, metadata, orig, atPrompt>>
    /\ Moved

\* new File("src/bin/rust_cli_quickstart.rs").rename(snake + ".rs")
RenameBin ==
    /\ pc = "rename"
    /\ \/ /\ OldBinPath \in DOMAIN fs
          /\ fs' = Move(fs, OldBinPath, RenamedPath(projectName))
          /\ trace' = Append(trace, Ev("rename", RenamedPath(projectName), <<>>))
          /\ pc' = After("rename")
       \/ \* the file is missing, or the rename fails
          /\ Throw("rename", <<>>)
          /\ UNCHANGED fs
    /\ UNCHANGED <<args, projectName, metadata, exitCode, orig, atPrompt>>
    /\ Moved

\* what a statement writes, given what it read
Transformed(step, text) ==
    IF step \in {"renderCargo", "renderReadme"}
    THEN render(text, ViewOf(step, metadata, projectName))
    ELSE Rewritten(text, step, projectName)

\* X.write(f(Y.text())): the text is read, transformed and written back
ReadWrite(step) ==
    LET src == PathOf(SourceOf(step), projectName)
        dst == PathOf(TargetOf(step), projectName)
    IN  /\ pc = step
        /\ \/ \* the file is missing, or the read fails
              /\ Throw(step, <<>>)
              /\ UNCHANGED fs
           \/ /\ src \in DOMAIN fs
              /\ LET new == Transformed(step, fs[src]) IN
                 \/ /\ fs' = Put(fs, dst, new)
                    /\ trace' = trace \o <<Ev("read", src, fs[src]),
                                           Ev("write", dst, new)>>
                    /\ pc' = After(step)
                 \/ \* the write fails: the file is as before, or truncated
                    /\ fs' \in {fs, Put(fs, dst, <<>>)}
                    /\ Throw(step, <<Ev("read", src, fs[src])>>)
        /\ UNCHANGED <<args, projectName, metadata, exitCode, orig, atPrompt>>
        /\ Moved

RewriteBin == ReadWrite("bin")

RewriteLib == ReadWrite("lib")

RewriteBench == ReadWrite("bench")

RewriteCargo == ReadWrite("cargo")

RewriteLaunch == ReadWrite("launch")

\* question("input", ...): the prompt is shown and the run blocks
AskQuestion ==
    /\ pc = "ask"
    /\ trace' = Append(trace, Ev("prompt", <<Questions[Len(metadata) + 1]>>, <<>>))
    /\ atPrompt' = IF metadata = <<>> THEN fs ELSE atPrompt
    /\ pc' = "wait"
    /\ UNCHANGED <<args, projectName, fs, metadata, exitCode, orig>>
    /\ Moved

\* the answer arrives and is bound to the field, or the input fails
ReceiveAnswer ==
    /\ pc = "wait"
    /\ \/ \E a \in Answers :
            /\ metadata' = Append(metadata, a)
            /\ trace' = Append(trace, Ev("answer", <<Questions[Len(metadata) + 1]>>, a))
            /\ pc' = IF Len(metadata') < Len(Questions)
                     THEN "ask"
                     ELSE After("ask")
       \/ /\ Throw("ask", <<>>)
          /\ UNCHANGED metadata
    /\ UNCHANGED <<args, projectName, fs, exitCode, orig, atPrompt>>
    /\ Moved

RenderCargo == ReadWrite("renderCargo")

RenderReadme == ReadWrite("renderReadme")

\* logger.warning("Don't forget to re-initialize the git repository!")
Warn ==
    /\ pc = "warn"
    /\ trace' = Append(trace, Ev("warning", <<>>, <<>>))
    /\ pc' = After("warn")
    /\ UNCHANGED <<args, projectName, fs, metadata, exitCode, orig, atPrompt>>
    /\ Moved

\* catch (error): logger.error(error.message); Deno.exit(1)
CatchError ==
    /\ pc = "catch"
    /\ trace' = Append(trace, Ev("error", <<>>, <<>>))
    /\ exitCode' = <<1>>
    /\ pc' = "exited"
    /\ UNCHANGED <<args, projectName, fs, metadata, orig, atPrompt>>
    /\ Moved

\* Deno.exit(0)
ExitOk ==
    /\ pc = "exit0"
    /\ exitCode' = <<0>>
    /\ pc' = "exited"
    /\ UNCHANGED <<args, projectName, fs, metadata, trace, orig, atPrompt>>
    /\ Moved

Next ==
    \/ Start
    \/ RenameBin
    \/ RewriteBin
    \/ RewriteLib
    \/ RewriteBench
    \/ RewriteCargo
    \/ RewriteLaunch
    \/ AskQuestion
    \/ ReceiveAnswer
    \/ RenderCargo
    \/ RenderReadme
    \/ Warn
    \/ CatchError
    \/ ExitOk

Spec == Init /\ [][Next]_vars

(***************************************************************************)
(* What the claims speak of                                                *)
(***************************************************************************)
\* a project name is valid when an alphanumeric character is left once the
\* separators are stripped
ValidName(name) == \E i \in 1..Len(name) : IsAlnum(name[i])

\* the name the run was started with
GivenName == IF Len(args.pos) >= 1 THEN args.pos[1] ELSE <<>>

Ops(ops) == SelectSeq(trace, LAMBDA e : e.op \in ops)

Count(op, path) ==
    Cardinality({ i \in 1..Len(trace) :
                    trace[i].op = op /\ trace[i].path = path })

HasThrow == \E i \in 1..Len(trace) : trace[i].op = "throw"

Prompted == \E i \in 1..Len(trace) : trace[i].op = "prompt"

BinPathExpected == <<"src/bin/">> \o snakeCase(projectName) \o <<".rs">>

LibPath == <<"src/lib.rs">>

BenchPath == <<"benches/benchmarks.rs">>

CargoPath == <<"Cargo.toml">>

LaunchPath == <<".vscode/launch.json">>

ReadmePath == <<"README.md">>

IsPrefixOf(s, t) == Len(s) <= Len(t) /\ s = SubSeq(t, 1, Len(s))

\* the rewrite phase has just completed: the first question is next
RewriteDone == pc = "ask" /\ metadata = <<>> /\ ~HasThrow

Succeeded == pc = "exited" /\ exitCode = <<0>>

(***************************************************************************)
(* C1: a run started without a project name, or with the help flag, prints *)
(* the usage and exits with status 1; it renames and writes no file.       *)
(***************************************************************************)
C1_UsageExitsBeforeMutation ==
    (args.help \/ Len(args.pos) < 1) =>
        /\ pc \in {"start", "exited"}
        /\ fs = orig
        /\ \A i \in 1..Len(trace) : trace[i].op = "usage"
        /\ pc = "exited" =>
             /\ exitCode = <<1>>
             /\ trace = <<Ev("usage", <<>>, <<>>)>>

C1_Witness ==
    /\ pc = "exited"
    /\ Len(args.pos) < 1
    /\ ~args.help
    /\ exitCode = <<1>>
    /\ trace = <<Ev("usage", <<>>, <<>>)>>

(***************************************************************************)
(* C2: the phases are entered in the order Start, RenamingAndRewriting-    *)
(* Files, CollectingMetadata, RenderingTemplates, Done (Failed may end     *)
(* any of them); the five rewrites are written in the order bin, lib,      *)
(* benches, Cargo.toml, launch.json before the first prompt, the five      *)
(* prompts are answered before the first render is written, and the        *)
(* advisory message comes after both renders are written.                  *)
(***************************************************************************)
PhaseOrder ==
    <<"Start", "RenamingAndRewritingFiles", "CollectingMetadata",
      "RenderingTemplates", "Done">>

\* the writes, prompts, answers and the advisory message of a whole run
FullRun(binPath) ==
    << <<"write", binPath>>, <<"write", LibPath>>,
       <<"write", BenchPath>>, <<"write", CargoPath>>,
       <<"write", LaunchPath>>,
       <<"prompt", <<"description">>>>, <<"answer", <<"description">>>>,
       <<"prompt", <<"firstName">>>>, <<"answer", <<"firstName">>>>,
       <<"prompt", <<"lastName">>>>, <<"answer", <<"lastName">>>>,
       <<"prompt", <<"email">>>>, <<"answer", <<"email">>>>,
       <<"prompt", <<"alias">>>>, <<"answer", <<"alias">>>>,
       <<"write", CargoPath>>, <<"write", ReadmePath>>,
       <<"warning", <<>>>> >>

C2_PhasesInOrder ==
    LET done == Ops({"write", "prompt", "answer", "warning"})
        full == FullRun(BinPathExpected)
        core == IF phases[Len(phases)] = "Failed"
                THEN SubSeq(phases, 1, Len(phases) - 1)
                ELSE phases
    IN  /\ IsPrefixOf(core, PhaseOrder)
        /\ IsPrefixOf([i \in 1..Len(done) |-> <<done[i].op, done[i].path>>],
                      full)
        /\ Succeeded => Len(done) = Len(full)

C2_Witness ==
    /\ Succeeded
    /\ phases = PhaseOrder
    /\ trace[Len(trace)].op = "warning"

(***************************************************************************)
(* C3: when a step of customizeProject fails the run goes to Failed at     *)
(* once: nothing but the one error message follows the failure, the exit   *)
(* status is 1, the advisory message is not emitted, and what was renamed  *)
(* or written before the failure stays as it was left; status 0 is         *)
(* reached only by a run in which every step completed.                    *)
(***************************************************************************)
ThrowAt == CHOOSE i \in 1..Len(trace) : trace[i].op = "throw"

\* the content the last write before position k left at a path
LastWritten(path, k) ==
    LET ws == { i \in 1..(k - 1) :
                  trace[i].op = "write" /\ trace[i].path = path }
    IN  trace[CHOOSE i \in ws : \A j \in ws : j <= i].val

\* the path the failing statement was reading or writing
FailingPath ==
    LET step == trace[ThrowAt].path[1]
    IN  IF step \in {"bin", "lib", "bench", "cargo", "launch"}
        THEN PathOf(step, projectName)
        ELSE IF step = "renderCargo" THEN CargoPath
        ELSE IF step = "renderReadme" THEN ReadmePath
        ELSE <<>>

C4_InvalidNameFails ==
    (~args.help /\ Len(args.pos) >= 1 /\ ~ValidName(GivenName)) =>
        /\ fs = orig
        /\ \A i \in 1..Len(trace) : trace[i].op \in {"throw", "error"}
        /\ pc = "exited" => exitCode = <<1>>

(***************************************************************************)
(* The placeholders each manifest entry targets and the forms that         *)
(* replace them.                                                           *)
(***************************************************************************)
TargetsOf(step) ==
    CASE step = "bin" -> <<"snake", "pascal">>
      [] step = "lib" -> <<"pascal">>
      [] step = "bench" -> <<"snake", "pascal">>
      [] step = "cargo" -> <<"snake", "kebab">>
      [] step = "launch" -> <<"snake">>

PlaceholderOf(kind) ==
    CASE kind = "snake" -> SnakePH
      [] kind = "pascal" -> PascalPH
      [] kind = "kebab" -> KebabPH

FormOf(kind, name) ==
    CASE kind = "snake" -> snakeCase(name)
      [] kind = "pascal" -> pascalCase(name)
      [] kind = "kebab" -> paramCase(name)

Placeholders == {SnakePH, PascalPH, KebabPH}

\* the first position at or after i where a placeholder of the file
\* matches, 0 when there is none
NextTarget(text, step, i) ==
    LET hit(j) == \E k \in 1..Len(TargetsOf(step)) :
                     MatchAt(text, PlaceholderOf(TargetsOf(step)[k]), j)
    IN  IF \E j \in i..Len(text) : hit(j)
        THEN CHOOSE j \in i..Len(text) :
                hit(j) /\ \A m \in i..(j - 1) : ~hit(m)
        ELSE 0

\* the placeholder of the file that matches at position j
TargetAt(text, step, j) ==
    TargetsOf(step)[CHOOSE k \in 1..Len(TargetsOf(step)) :
                      MatchAt(text, PlaceholderOf(TargetsOf(step)[k]), j)]

RECURSIVE SimSubst(_, _, _, _)
\* the simultaneous substitution: one scan of the original text, in which
\* a placeholder found at a position becomes its form and nothing that
\* was put in is looked at again
SimSubst(text, step, name, i) ==
    LET j == NextTarget(text, step, i)
    IN  IF j = 0 THEN SubSeq(text, i, Len(text))
        ELSE SubSeq(text, i, j - 1)
               \o FormOf(TargetAt(text, step, j), name)
               \o SimSubst(text, step, name,
                           j + Len(PlaceholderOf(TargetAt(text, step, j))))

\* every placeholder of the text is a word of its own, set off by spaces
Delimited(text) ==
    \A ph \in Placeholders : \A i \in 1..Len(text) :
        MatchAt(text, ph, i) =>
            /\ i = 1 \/ text[i - 1] = " "
            /\ i + Len(ph) > Len(text) \/ text[i + Len(ph)] = " "

\* no form put into the file holds a placeholder the file targets
FormsClean(step, name) ==
    \A k, m \in 1..Len(TargetsOf(step)) :
        ~Occurs(FormOf(TargetsOf(step)[k], name),
                PlaceholderOf(TargetsOf(step)[m]))

TemplateText(step) == orig[TemplatePath(step)]

WrittenText(step) ==
    fs[IF step = "bin" THEN BinPathExpected ELSE PathOf(step, <<>>)]

WidgetMaker == <<"w","i","d","g","e","t"," ","m","a","k","e","r">>

C6_NoCascade ==
    (RewriteDone /\ ValidName(projectName)) =>
        \A k \in 1..Len(RewriteSteps) :
            WrittenText(RewriteSteps[k]) =
                SimSubst(TemplateText(RewriteSteps[k]), RewriteSteps[k],
                         projectName, 1)

(***************************************************************************)
(* C7: the five fields are prompted in the order description, first name,  *)
(* last name, email, alias; a prompt is issued only when the answer of the *)
(* field before it has been received; each field is prompted once; and the *)
(* answer, the empty string too, is the value of the field as it came.     *)
(***************************************************************************)
FieldOrder == <<"description", "firstName", "lastName", "email", "alias">>

Dialogue == Ops({"prompt", "answer"})

C7_PromptsSequential ==
    LET dialogue == Dialogue
        answers == Ops({"answer"})
    IN  /\ Len(dialogue) <= 2 * Len(FieldOrder)
        /\ \A k \in 1..Len(dialogue) :
             /\ dialogue[k].op = IF k % 2 = 1 THEN "prompt" ELSE "answer"
             /\ dialogue[k].path = <<FieldOrder[(k + 1) \div 2]>>
        /\ Len(metadata) = Len(answers)
        /\ \A k \in 1..Len(metadata) : metadata[k] = answers[k].val

C7_Witness ==
    /\ pc = "renderCargo"
    /\ Len(Dialogue) = 2 * Len(FieldOrder)
    /\ metadata[1] = <<>>
    /\ metadata[5] # <<>>

(***************************************************************************)
(* C8, as stated: over a whole successful run every manifest entry,        *)
(* Cargo.toml too, is read once and written once.                          *)
(***************************************************************************)
ManifestPaths ==
    {BinPathExpected, LibPath, BenchPath, CargoPath, LaunchPath}

C8_ReadOnceWrittenOnce ==
    Succeeded =>
        \A q \in ManifestPaths : Count("read", q) = 1 /\ Count("write", q) = 1

(***************************************************************************)
(* C8, amended: over a whole successful run every manifest entry but       *)
(* Cargo.toml is read once and written once; Cargo.toml, which is a        *)
(* template target too, is read twice and written twice, once in the       *)
(* rewrite phase and once in the render phase; README.md is read once and  *)
(* written once.                                                           *)
(***************************************************************************)
FirstPrompt == CHOOSE i \in 1..Len(trace) : trace[i].op = "prompt"

C8_CargoTwiceOthersOnce ==
    Succeeded =>
        LET first == FirstPrompt IN
        /\ \A q \in (ManifestPaths \cup {ReadmePath}) \ {CargoPath} :
             Count("read", q) = 1 /\ Count("write", q) = 1
        /\ Count("read", CargoPath) = 2
        /\ Count("write", CargoPath) = 2
        /\ \E i \in 1..(first - 1) :
             trace[i].op = "write" /\ trace[i].path = CargoPath
        /\ \E j \in (first + 1)..Len(trace) :
             trace[j].op = "write" /\ trace[j].path = CargoPath

C8_Witness == Succeeded /\ Count("write", CargoPath) = 2

(***************************************************************************)
(* C9: the rename of src/bin/rust_cli_quickstart.rs to "<snake form>.rs"   *)
(* in the same directory is the first change of the file system; the bin   *)
(* content is read from and written back to the renamed path; and when the *)
(* rename fails no file content is read or written.                        *)
(***************************************************************************)
C9_RenameBeforeRead ==
    LET binPath == <<"src/bin/">> \o snakeCase(projectName) \o <<".rs">>
        renames == Ops({"rename"})
        reads == Ops({"read"})
        writes == Ops({"write"})
    IN  /\ Len(renames) <= 1
        /\ \A i \in 1..Len(trace) :
             /\ trace[i].op = "rename" =>
                  /\ trace[i].path = binPath
                  /\ \A j \in 1..(i - 1) : trace[j].op \notin {"read", "write"}
             /\ trace[i].op \in {"read", "write"} =>
                  \E j \in 1..(i - 1) : trace[j].op = "rename"
        /\ renames = <<>> => fs = orig
        /\ (pc = "bin" /\ ~HasThrow) =>
             /\ binPath \in DOMAIN fs
             /\ fs[binPath] = orig[OldBinPath]
             /\ binPath # OldBinPath => OldBinPath \notin DOMAIN fs
             /\ \A q \in DOMAIN fs \ {binPath} : fs[q] = orig[q]
        /\ Len(reads) >= 1 =>
             /\ reads[1].path = binPath
             /\ reads[1].val = orig[OldBinPath]
        /\ Len(writes) >= 1 =>
             /\ writes[1].path = binPath
             /\ OldBinPath # binPath => OldBinPath \notin DOMAIN fs

C9_Witness ==
    /\ pc = "lib"
    /\ ~HasThrow
    /\ BinPathExpected # OldBinPath
    /\ Ops({"rename", "read", "write"}) =
         << Ev("rename", BinPathExpected, <<>>),
            Ev("read", BinPathExpected, orig[OldBinPath]),
            Ev("write", BinPathExpected, fs[BinPathExpected]) >>
    /\ fs[BinPathExpected] # orig[OldBinPath]

(***************************************************************************)
(* C10: a run writes only the six files it declares (the bin file at its   *)
(* renamed path); README.md is not changed in the rewrite phase; from the  *)
(* first prompt on the bin file, src/lib.rs, benches/benchmarks.rs and     *)
(* .vscode/launch.json stay as the rewrite phase left them, and only       *)
(* Cargo.toml and README.md are written.                                   *)
(***************************************************************************)
SourcePaths == {BinPathExpected, LibPath, BenchPath, LaunchPath}

C10_PhasesTouchOwnTargets ==
    LET sources == SourcePaths
        first == IF Prompted THEN FirstPrompt ELSE Len(trace) + 1
    IN  /\ \A i \in 1..Len(trace) :
             trace[i].op = "write" =>
                /\ trace[i].path \in sources \cup {CargoPath, ReadmePath}
                /\ i > first => trace[i].path \in {CargoPath, ReadmePath}
                /\ i < first => trace[i].path # ReadmePath
        /\ DOMAIN fs \subseteq sources \cup {CargoPath, ReadmePath, OldBinPath}
        /\ ~Prompted =>
             /\ ReadmePath \in DOMAIN fs
             /\ fs[ReadmePath] = orig[ReadmePath]
        /\ Prompted =>
             /\ DOMAIN fs = DOMAIN atPrompt
             /\ \A q \in sources : fs[q] = atPrompt[q]
             /\ PhaseOf(pc, exitCode) = "CollectingMetadata" => fs = atPrompt

C10_Witness ==
    /\ Succeeded
    /\ fs[ReadmePath] # orig[ReadmePath]
    /\ fs[CargoPath] # atPrompt[CargoPath]
    /\ fs[LibPath] = atPrompt[LibPath]
    /\ fs[LibPath] # orig[LibPath]

=============================================================================
